---- MODULE Spec2Model ----
(***************************************************************************)
(* Model of visualize.py: the function draw_sierpinski_ascii(depth=3) and  *)
(* the module's __main__ block.  Standard output is a sequence of lines;   *)
(* one call of the function runs through its print blocks in source order. *)
(*                                                                         *)
(* Characters outside ASCII cannot be written in a TLA+ string, so every   *)
(* such code point of a literal is written as the token <U+XXXX>.  The     *)
(* tokens contain none of the characters the properties look for           *)
(* ("/", "\", "=", "Depth").                                               *)
(***************************************************************************)
EXTENDS Integers, Sequences, FiniteSets, TLC

VARIABLES
    name,       \* __name__ of the module: "__main__" (run as a script) or "visualize" (imported)
    pc,         \* position of the single thread of control
    depth,      \* the argument bound to the parameter `depth` of the running (or last) call
    stdout,     \* the lines written to standard output so far
    calls,      \* history: one record per call that returned, with the segment of stdout it wrote
    callStart,  \* history: Len(stdout) when the running (or last) call was entered
    exitCode    \* exit status of the process, NotExited while it runs

vars == <<name, pc, depth, stdout, calls, callStart, exitCode>>

----------------------------------------------------------------------------
(* Bounds *)

MaxCalls == 3       \* calls an importing client makes
MaxDepth == 2       \* integer arguments range over -MaxDepth..MaxDepth, plus the default

(* Program constants *)

DefaultDepth == 3
SeparatorWidth == 55
NotExited == -1

----------------------------------------------------------------------------
(* Values passed as `depth`.  Python binds any object; an int is compared  *)
(* numerically, None makes `depth >= 0` raise TypeError.                   *)

IntArg(n) == [type |-> "int", val |-> n]
NoneArg == [type |-> "NoneType", val |-> 0]
IsInt(d) == d.type = "int"

DepthInputs == {IntArg(n) : n \in (-MaxDepth..MaxDepth) \cup {DefaultDepth}} \cup {NoneArg}

----------------------------------------------------------------------------
(* The string literals of the function *)

RECURSIVE Repeat(_, _)
Repeat(s, n) == IF n <= 0 THEN "" ELSE s \o Repeat(s, n - 1)

Title == "<U+1F53A> SIERPINSKI TRIANGLE CRYPTOCURRENCY VISUALIZATION"
\* mutant: the separator one character short
Separator_short == Repeat("=", SeparatorWidth - 1)
Separator == Repeat("=", SeparatorWidth)
Blank == ""

Header == <<Title, Separator, Blank>>

Depth0Heading == "Depth 0 (Genesis):"
Depth0Block ==
    << Depth0Heading,
       "     /\\",
       "    /  \\",
       "   /____\\",
       Blank >>

Depth1Heading == "Depth 1 (First Subdivision):"
Depth1Block ==
    << Depth1Heading,
       "     /\\",
       "    /  \\",
       "   /____\\",
       "  /\\    /\\",
       " /  \\  /  \\",
       "/____\\/____\\",
       Blank >>

TokenHeading == "<U+1F3E6> TOKEN ECONOMICS:"
TokenEconomics ==
    << TokenHeading,
       "<U+2022> Each triangle = potential cryptocurrency ownership",
       "<U+2022> Smaller triangles = rarer tokens (higher value)",
       "<U+2022> Void spaces = removed from circulation (deflationary)",
       Blank >>

MiningHeading == "<U+26CF><U+FE0F>  MINING PROCESS:"
MiningProcess ==
    << MiningHeading,
       "<U+2022> Miners compete to subdivide triangles",
       "<U+2022> Valid subdivisions earn cryptocurrency rewards",
       "<U+2022> Geometric proof-of-work validates authenticity",
       Blank >>

AddressHeading == "<U+1F4CD> ADDRESS SYSTEM:"
AddressSystem ==
    << AddressHeading,
       "genesis        <U+2192> Root triangle",
       "genesis.0      <U+2192> First child triangle",
       "genesis.0.1    <U+2192> Grandchild triangle",
       "genesis.0.1.2  <U+2192> Great-grandchild triangle",
       Blank >>

Closing == "<U+2705> VERIFIED: Mathematical foundation is solid!"

----------------------------------------------------------------------------
(* Conditions and control flow of the function *)

\* mutant: a negative depth is rejected with an exception
PyRaises_negative(d) == ~IsInt(d) \/ d.val < 0

\* `depth >= k` raises TypeError unless depth is a number
PyRaises(d) == ~IsInt(d)

\* mutants of the first guard: off by one below, strict, equality
Guard0_geMinus1(d) == d.val >= -1
Guard0_gt0(d) == d.val > 0
Guard0_eq0(d) == d.val = 0

Guard0(d) == d.val >= 0

\* mutants of the second guard: equality, the first guard's bound, strict
Guard1_eq1(d) == d.val = 1
Guard1_ge0(d) == d.val >= 0
Guard1_gt1(d) == d.val > 1

Guard1(d) == d.val >= 1

\* mutant: the Mining Process block printed before the Token Economics block
Succ_swapped(p) ==
    CASE p = "header"  -> "guard0"
      [] p = "guard0"  -> "guard1"
      [] p = "guard1"  -> "mining"
      [] p = "mining"  -> "token"
      [] p = "token"   -> "address"
      [] p = "address" -> "closing"

\* the statement block that follows block p in the function body
Succ(p) ==
    CASE p = "header"  -> "guard0"
      [] p = "guard0"  -> "guard1"
      [] p = "guard1"  -> "token"
      [] p = "token"   -> "mining"
      [] p = "mining"  -> "address"
      [] p = "address" -> "closing"

\* where control continues when the function returns
ReturnTo(n) == IF n = "__main__" THEN "exit" ELSE "idle"

----------------------------------------------------------------------------
Init ==
    /\ name \in {"__main__", "visualize"}
    /\ pc = "module"
    /\ depth = IntArg(DefaultDepth)
    /\ stdout = <<>>
    /\ calls = <<>>
    /\ callStart = 0
    /\ exitCode = NotExited

\* entry into draw_sierpinski_ascii with argument d
Enter(d) ==
    /\ depth' = d
    /\ callStart' = Len(stdout)
    /\ pc' = "header"
    /\ UNCHANGED <<name, stdout, calls, exitCode>>

\* if __name__ == "__main__": draw_sierpinski_ascii()
MainCall ==
    /\ pc = "module"
    /\ name = "__main__"
    /\ Enter(IntArg(DefaultDepth))

\* the module is imported: the def is executed, the __main__ block is skipped
Import ==
    /\ pc = "module"
    /\ name # "__main__"
    /\ pc' = "idle"
    /\ UNCHANGED <<name, depth, stdout, calls, callStart, exitCode>>

\* an importing client calls draw_sierpinski_ascii(d)
Call(d) ==
    /\ pc = "idle"
    /\ Len(calls) < MaxCalls
    /\ Enter(d)

\* mutant: the header is printed by the first call of the process only
PrintHeader_once ==
    /\ pc = "header"
    /\ stdout' = IF stdout = <<>> THEN stdout \o Header ELSE stdout
    /\ pc' = Succ("header")
    /\ UNCHANGED <<name, depth, calls, callStart, exitCode>>

PrintHeader ==
    /\ pc = "header"
    /\ stdout' = stdout \o Header
    /\ pc' = Succ("header")
    /\ UNCHANGED <<name, depth, calls, callStart, exitCode>>

CheckDepth0 ==
    /\ pc = "guard0"
    /\ IF PyRaises(depth)
         THEN pc' = "error" /\ UNCHANGED stdout
         ELSE /\ stdout' = IF Guard0(depth) THEN stdout \o Depth0Block ELSE stdout
              /\ pc' = Succ("guard0")
    /\ UNCHANGED <<name, depth, calls, callStart, exitCode>>

CheckDepth1 ==
    /\ pc = "guard1"
    /\ IF PyRaises(depth)
         THEN pc' = "error" /\ UNCHANGED stdout
         ELSE /\ stdout' = IF Guard1(depth) THEN stdout \o Depth1Block ELSE stdout
              /\ pc' = Succ("guard1")
    /\ UNCHANGED <<name, depth, calls, callStart, exitCode>>

PrintTokenEconomics ==
    /\ pc = "token"
    /\ stdout' = stdout \o TokenEconomics
    /\ pc' = Succ("token")
    /\ UNCHANGED <<name, depth, calls, callStart, exitCode>>

PrintMiningProcess ==
    /\ pc = "mining"
    /\ stdout' = stdout \o MiningProcess
    /\ pc' = Succ("mining")
    /\ UNCHANGED <<name, depth, calls, callStart, exitCode>>

PrintAddressSystem ==
    /\ pc = "address"
    /\ stdout' = stdout \o AddressSystem
    /\ pc' = Succ("address")
    /\ UNCHANGED <<name, depth, calls, callStart, exitCode>>

\* the last print; the function then returns None to its caller
PrintClosing ==
    /\ pc = "closing"
    /\ stdout' = Append(stdout, Closing)
    /\ calls' = Append(calls, [depth |-> depth, first |-> callStart + 1, last |-> Len(stdout) + 1])
    /\ pc' = ReturnTo(name)
    /\ UNCHANGED <<name, depth, callStart, exitCode>>

\* end of the script, or the importing client finishes
Exit ==
    /\ pc \in {"exit", "idle"}
    /\ pc' = "exited"
    /\ exitCode' = 0
    /\ UNCHANGED <<name, depth, stdout, calls, callStart>>

\* an exception nobody catches ends the process with status 1
Uncaught ==
    /\ pc = "error"
    /\ pc' = "exited"
    /\ exitCode' = 1
    /\ UNCHANGED <<name, depth, stdout, calls, callStart>>

Step ==
    \/ PrintHeader
    \/ CheckDepth0
    \/ CheckDepth1
    \/ PrintTokenEconomics
    \/ PrintMiningProcess
    \/ PrintAddressSystem
    \/ PrintClosing

Next ==
    \/ MainCall
    \/ Import
    \/ \E d \in DepthInputs : Call(d)
    \/ PrintHeader
    \/ CheckDepth0
    \/ CheckDepth1
    \/ PrintTokenEconomics
    \/ PrintMiningProcess
    \/ PrintAddressSystem
    \/ PrintClosing
    \/ Exit
    \/ Uncaught

Spec == Init /\ [][Next]_vars

\* Execution is sequential and non-suspending: a started call runs on, the
\* script's only call is made, and an uncaught exception ends the process.
FairSpec == Spec /\ WF_vars(Step) /\ WF_vars(MainCall) /\ WF_vars(Uncaught)
                 /\ WF_vars(pc = "exit" /\ Exit)

TypeOK ==
    /\ name \in {"__main__", "visualize"}
    /\ pc \in {"module", "idle", "header", "guard0", "guard1", "token", "mining",
               "address", "closing", "exit", "exited", "error"}
    /\ depth \in DepthInputs
    /\ callStart \in 0..Len(stdout)
    /\ Len(calls) <= MaxCalls
    /\ exitCode \in {NotExited, 0, 1}

----------------------------------------------------------------------------
(* Reading the output *)

\* the lines a returned call wrote
Out(c) == SubSeq(stdout, c.first, c.last)

\* the lines the running (or last entered) call has written so far
Current == SubSeq(stdout, callStart + 1, Len(stdout))

Returned == {i \in DOMAIN calls : IsInt(calls[i].depth)}

Contains(s, t) == \E i \in 1..(Len(s) - Len(t) + 1) : SubSeq(s, i, i + Len(t) - 1) = t

Positions(out, line) == {k \in DOMAIN out : out[k] = line}

Occurrences(s, t) == Cardinality({i \in 1..(Len(s) - Len(t) + 1) : SubSeq(s, i, i + Len(t) - 1) = t})

\* a row of a triangle drawing: it holds a slash or a backslash
IsGlyphLine(l) == Contains(l, "/") \/ Contains(l, "\\")

IsSubHeading(l) == Contains(l, "Depth")

AllEquals(l) == \A i \in 1..Len(l) : SubSeq(l, i, i) = "="

RECURSIVE IsSubseq(_, _)
IsSubseq(a, b) ==
    IF a = <<>> THEN TRUE
    ELSE IF b = <<>> THEN FALSE
    ELSE IF Head(a) = Head(b) THEN IsSubseq(Tail(a), Tail(b))
    ELSE IsSubseq(a, Tail(b))

\* the headings of the informational sections and the closing line occur
\* once each, in this order
SectionsInOrder(out) ==
    /\ Cardinality(Positions(out, "<U+1F3E6> TOKEN ECONOMICS:")) = 1
    /\ Cardinality(Positions(out, "<U+26CF><U+FE0F>  MINING PROCESS:")) = 1
    /\ Cardinality(Positions(out, "<U+1F4CD> ADDRESS SYSTEM:")) = 1
    /\ Cardinality(Positions(out, "<U+2705> VERIFIED: Mathematical foundation is solid!")) = 1
    /\ \A t \in Positions(out, "<U+1F3E6> TOKEN ECONOMICS:") :
       \A m \in Positions(out, "<U+26CF><U+FE0F>  MINING PROCESS:") :
       \A a \in Positions(out, "<U+1F4CD> ADDRESS SYSTEM:") :
       \A v \in Positions(out, "<U+2705> VERIFIED: Mathematical foundation is solid!") :
           t < m /\ m < a /\ a < v

\* the lines from the Token Economics heading to the end
SectionLines(out) ==
    LET P == Positions(out, "<U+1F3E6> TOKEN ECONOMICS:")
    IN  IF P = {} THEN <<>> ELSE SubSeq(out, CHOOSE t \in P : \A u \in P : t <= u, Len(out))

----------------------------------------------------------------------------
\* C1: any two returned calls whose depths are integers >= 1 (the default 3
\* among them) wrote exactly the same sequence of lines.
C1_SameOutputFromDepth1 ==
    \A i, j \in Returned :
        (calls[i].depth.val >= 1 /\ calls[j].depth.val >= 1) => Out(calls[i]) = Out(calls[j])

C1_Witness ==
    \E i, j \in Returned :
        /\ calls[i].depth.val = 1
        /\ calls[j].depth.val = DefaultDepth
        /\ Len(Out(calls[i])) > 0

\* C2: a returned call with depth 0 wrote the Depth 0 (Genesis) block and no
\* line that contains "Depth 1".
C2_Depth0OnlyGenesis ==
    \A i \in Returned :
        calls[i].depth.val = 0 =>
            /\ \E k \in DOMAIN Out(calls[i]) : Out(calls[i])[k] = "Depth 0 (Genesis):"
            /\ \E k \in DOMAIN Out(calls[i]) : IsGlyphLine(Out(calls[i])[k])
            /\ \A k \in DOMAIN Out(calls[i]) : ~Contains(Out(calls[i])[k], "Depth 1")

C2_Witness == \E i \in Returned : calls[i].depth.val = 0

\* C3: a returned call with a negative depth wrote no sub-heading and no
\* triangle row, and wrote the title, the four sections and the closing line
\* in their order.
C3_NegativeDepthNoDiagram ==
    \A i \in Returned :
        calls[i].depth.val < 0 =>
            /\ \A k \in DOMAIN Out(calls[i]) :
                  ~IsSubHeading(Out(calls[i])[k]) /\ ~IsGlyphLine(Out(calls[i])[k])
            /\ Out(calls[i])[1] = "<U+1F53A> SIERPINSKI TRIANGLE CRYPTOCURRENCY VISUALIZATION"
            /\ SectionsInOrder(Out(calls[i]))
            /\ Out(calls[i]) = Header \o TokenEconomics \o MiningProcess \o AddressSystem \o <<Closing>>

C3_Witness == \E i \in Returned : calls[i].depth.val < 0

\* C4: every returned call with an integer depth wrote the Token Economics,
\* Mining Process and Address System headings and the closing line once each
\* and in this order, and the lines of these sections are the same in any two
\* such calls.
C4_SectionsFixedOrder ==
    /\ \A i \in Returned : SectionsInOrder(Out(calls[i]))
    /\ \A i, j \in Returned : SectionLines(Out(calls[i])) = SectionLines(Out(calls[j]))

C4_Witness ==
    \E i, j \in Returned :
        /\ calls[i].depth.val < 0
        /\ calls[j].depth.val >= 1
        /\ Len(SectionLines(Out(calls[j]))) = 17

\* C5: every returned call with an integer depth wrote the title first, a
\* line of exactly 55 "=" second, a blank line third and the closing line
\* last; nothing is on standard output after it when the call has returned.
C5_HeaderFirstClosingLast ==
    /\ \A i \in Returned :
          /\ Out(calls[i])[1] = "<U+1F53A> SIERPINSKI TRIANGLE CRYPTOCURRENCY VISUALIZATION"
          /\ Len(Out(calls[i])[2]) = 55
          /\ AllEquals(Out(calls[i])[2])
          /\ Out(calls[i])[3] = ""
          /\ Out(calls[i])[Len(Out(calls[i]))] = "<U+2705> VERIFIED: Mathematical foundation is solid!"
    /\ (pc \in {"idle", "exit"} /\ calls # <<>>) =>
          /\ calls[Len(calls)].last = Len(stdout)
          /\ stdout[Len(stdout)] = "<U+2705> VERIFIED: Mathematical foundation is solid!"

C5_Witness ==
    /\ pc \in {"idle", "exit"}
    /\ \E i, j \in Returned : calls[i].depth.val < 0 /\ calls[j].depth.val = DefaultDepth

----------------------------------------------------------------------------
\* C6: calls with the same depth wrote the same lines, whatever was called
\* in between; the segments of the calls follow one another on standard
\* output without gap or overlap, so that standard output is the
\* concatenation of the calls' outputs when no call is running.
C6_CallsIndependent ==
    /\ \A i, j \in DOMAIN calls :
          calls[i].depth = calls[j].depth => Out(calls[i]) = Out(calls[j])
    /\ \A i \in DOMAIN calls :
          calls[i].first = (IF i = 1 THEN 1 ELSE calls[i - 1].last + 1)
    /\ (pc \in {"idle", "exit"} /\ calls # <<>>) => calls[Len(calls)].last = Len(stdout)

C6_Witness ==
    /\ pc = "idle"
    /\ Len(calls) = 3
    /\ calls[1].depth = calls[3].depth
    /\ calls[1].depth # calls[2].depth
    /\ calls[2].depth = IntArg(0)
    /\ Out(calls[1]) # Out(calls[2])

\* C7: with an integer depth the call reaches no error and the process never
\* exits with status 1; a call that was entered with an integer depth
\* returns with the closing line as the last line written; the script exits
\* with status 0.
C7_Total ==
    /\ [](pc = "error" => ~IsInt(depth))
    /\ [](pc = "exited" /\ IsInt(depth) => exitCode = 0)
    /\ (pc = "header" /\ IsInt(depth)) ~>
          (/\ pc \in {"idle", "exit"}
           /\ stdout # <<>>
           /\ stdout[Len(stdout)] = "<U+2705> VERIFIED: Mathematical foundation is solid!")
    /\ (name = "__main__") ~> (pc = "exited" /\ exitCode = 0)

C7_Witness ==
    /\ pc = "exited"
    /\ exitCode = 0
    /\ \E i \in Returned : calls[i].depth.val < 0
    /\ stdout[Len(stdout)] = "<U+2705> VERIFIED: Mathematical foundation is solid!"

\* C8 as stated: a returned call with depth >= 0 wrote the "Depth 0" heading,
\* then four rows of drawing (the fourth with the underscore base), then a
\* blank line.
C8_FourLineDrawing ==
    \A i \in Returned :
        calls[i].depth.val >= 0 =>
            \E k \in DOMAIN Out(calls[i]) :
                /\ Out(calls[i])[k] = "Depth 0 (Genesis):"
                /\ k + 5 <= Len(Out(calls[i]))
                /\ \A r \in 1..4 : IsGlyphLine(Out(calls[i])[k + r])
                /\ Contains(Out(calls[i])[k + 4], "____")
                /\ Out(calls[i])[k + 5] = ""

\* C8 amended: a returned call with depth >= 0 wrote the "Depth 0" heading,
\* then three rows of drawing (two rows of sides and the row with the
\* underscore base), then a blank line.
C8_ThreeLineDrawing ==
    \A i \in Returned :
        calls[i].depth.val >= 0 =>
            \E k \in DOMAIN Out(calls[i]) :
                /\ Out(calls[i])[k] = "Depth 0 (Genesis):"
                /\ k + 4 <= Len(Out(calls[i]))
                /\ \A r \in 1..3 : IsGlyphLine(Out(calls[i])[k + r])
                /\ \A r \in 1..2 : ~Contains(Out(calls[i])[k + r], "_")
                /\ Contains(Out(calls[i])[k + 3], "/____\\")
                /\ Out(calls[i])[k + 4] = ""

C8_Witness == \E i, j \in Returned : calls[i].depth.val = 0 /\ calls[j].depth.val > 0

\* C9 as stated: a returned call with depth >= 1 wrote the "Depth 1" heading,
\* then seven rows of drawing, then a blank line.
C9_SevenLineDrawing ==
    \A i \in Returned :
        calls[i].depth.val >= 1 =>
            \E k \in DOMAIN Out(calls[i]) :
                /\ Out(calls[i])[k] = "Depth 1 (First Subdivision):"
                /\ k + 8 <= Len(Out(calls[i]))
                /\ \A r \in 1..7 : IsGlyphLine(Out(calls[i])[k + r])
                /\ Out(calls[i])[k + 8] = ""

\* C9 amended: a returned call with depth >= 1 wrote the "Depth 1" heading,
\* then six rows of drawing (three rows with one triangle, then three rows
\* with two triangles side by side), then a blank line.
C9_SixLineDrawing ==
    \A i \in Returned :
        calls[i].depth.val >= 1 =>
            \E k \in DOMAIN Out(calls[i]) :
                /\ Out(calls[i])[k] = "Depth 1 (First Subdivision):"
                /\ k + 7 <= Len(Out(calls[i]))
                /\ \A r \in 1..6 : IsGlyphLine(Out(calls[i])[k + r])
                /\ \A r \in 1..3 : Occurrences(Out(calls[i])[k + r], "/") = 1
                /\ \A r \in 4..6 : Occurrences(Out(calls[i])[k + r], "/") = 2
                /\ Occurrences(Out(calls[i])[k + 3], "/____\\") = 1
                /\ Occurrences(Out(calls[i])[k + 6], "/____\\") = 2
                /\ Out(calls[i])[k + 7] = ""

C9_Witness == \E i, j \in Returned : calls[i].depth.val = 1 /\ calls[j].depth.val > 1

\* C10: in the lines of one call, a "Depth 1" heading has a "Depth 0" heading
\* before it, both come after the three header lines and before the Token
\* Economics heading; the lines of a call with depth d are a subsequence of
\* the lines of a call with depth d + 1.
C10_GuardsNested ==
    /\ \A k \in Positions(Current, "Depth 1 (First Subdivision):") :
          \E j \in Positions(Current, "Depth 0 (Genesis):") : j < k
    /\ \A k \in Positions(Current, "Depth 0 (Genesis):") \cup Positions(Current, "Depth 1 (First Subdivision):") :
          /\ k > 3
          /\ Current[1] = "<U+1F53A> SIERPINSKI TRIANGLE CRYPTOCURRENCY VISUALIZATION"
          /\ \A t \in Positions(Current, "<U+1F3E6> TOKEN ECONOMICS:") : k < t
    /\ \A i, j \in Returned :
          calls[j].depth.val = calls[i].depth.val + 1 => IsSubseq(Out(calls[i]), Out(calls[j]))

C10_Witness ==
    /\ pc \in {"idle", "exit", "exited"}
    /\ \E h, i, j \in Returned :
          /\ calls[h].depth.val = -1
          /\ calls[i].depth.val = 0
          /\ calls[j].depth.val = 1
          /\ Len(Out(calls[h])) < Len(Out(calls[i]))
          /\ Len(Out(calls[i])) < Len(Out(calls[j]))
====
